---- MODULE Spec2Model ----
(***************************************************************************)
(* Model of stockreport/services.py (class LiveSQLService): the moving-    *)
(* average stock replay (get_closing_stock_live), the account balance      *)
(* report (get_closing_balance_live) and the item ledger                   *)
(* (get_stock_ledger_live).                                                 *)
(*                                                                         *)
(* Numbers.  The SQL columns D1, D3, Value1, Value3 arrive as Python       *)
(* numbers; the model computes with exact rationals <<n, d>> (d > 0,       *)
(* lowest terms), so "/" is a real division and round(x, 2) a real         *)
(* rounding.  Binary floating point error is not modelled.                 *)
(*                                                                         *)
(* Dates.  A date is a day number 1, 2, ...; the absent date (Python None) *)
(* is NoDate.  The time of day that Tran2.Date may carry is not modelled:  *)
(* the code drops it (txn[0].date()) before every comparison.              *)
(*                                                                         *)
(* Catalogue.  The report loops run the same body once per Master1 row     *)
(* with no state carried from one item to the next; the model holds one    *)
(* item (or account) and its folio1 / Tran2 rows.                          *)
(***************************************************************************)
EXTENDS Integers, Sequences, FiniteSets, TLC

\* ------------------------------------------------------------------ bounds
\* Longest Tran2 history of the item.
MaxTxns == 2
\* Transaction dates are 1..MaxDate; window bounds range to MaxDate + 1.
MaxDate == 2

\* ------------------------------------------------------- exact arithmetic
AbsInt(n) == IF n < 0 THEN -n ELSE n

RECURSIVE Gcd(_, _)
Gcd(a, b) == IF b = 0 THEN a ELSE Gcd(b, a % b)

\* The rational n/d in lowest terms with a positive denominator (d # 0).
Norm(n, d) ==
    LET g == Gcd(AbsInt(n), AbsInt(d))
        s == IF d < 0 THEN -1 ELSE 1
    IN  <<(s * n) \div g, (s * d) \div g>>

Rat(n) == <<n, 1>>
Zero == <<0, 1>>
\* What a division by zero would yield (Python raises ZeroDivisionError).
DivByZero == <<1, 0>>

RAdd(a, b) == Norm(a[1] * b[2] + b[1] * a[2], a[2] * b[2])
RSub(a, b) == Norm(a[1] * b[2] - b[1] * a[2], a[2] * b[2])
RMul(a, b) == Norm(a[1] * b[1], a[2] * b[2])
RDiv(a, b) == IF b[1] = 0 THEN DivByZero ELSE Norm(a[1] * b[2], a[2] * b[1])
RAbs(a) == <<AbsInt(a[1]), a[2]>>
RNeg(a) == <<-a[1], a[2]>>
RLt(a, b) == a[1] * b[2] < b[1] * a[2]
RGt(a, b) == RLt(b, a)

\* Python round(x, 2): the nearest multiple of 1/100, a tie going to the
\* even multiple.
Round2(x) ==
    LET n == 100 * x[1]
        d == x[2]
        f == n \div d
        r == n - f * d
        k == IF 2 * r < d THEN f
             ELSE IF 2 * r > d THEN f + 1
             ELSE IF f % 2 = 0 THEN f ELSE f + 1
    IN  Norm(k, 100)

\* ---------------------------------------------------------------- database
\* SQL NULL in a numeric column (Python None): no rational has denominator 0.
Null == <<0, 0>>
\* An absent start_date / end_date argument (Python None).
NoDate == 0

\* Master1.MasterType of a stock item and of an account.
StockItem == 6
Account == 2

\* Python truth value of a fetched number: None and 0 are false.
Truthy(x) == x # Null /\ x[1] # 0

Dates == 1..MaxDate
\* start_date / end_date arguments: absent, or a day.
DateArgs == {NoDate} \cup (1..(MaxDate + 1))

\* The folio1 rows of a stock item (D1 = quantity, D3 = value), as the rows
\* the query finds: none, a row of NULLs, and carried-forward balances.
StockFolios ==
    { <<>>,
      <<[D1 |-> Null, D3 |-> Null]>>,
      <<[D1 |-> Zero, D3 |-> Rat(5)]>>,
      <<[D1 |-> Norm(1, 250), D3 |-> Rat(1)]>>,
      <<[D1 |-> Rat(2), D3 |-> Rat(10)]>> }

\* Tran2 movements <<Value1, Value3>> of a stock item: purchases at two
\* different rates, sales, and a row with no quantity.
StockMoves ==
    { <<Rat(1), Rat(10)>>, <<Rat(2), Rat(8)>>,
      <<Rat(-1), Rat(-7)>>, <<Rat(-2), Rat(-14)>>,
      <<Zero, Rat(3)>> }

\* txn[0], txn[1], txn[2] of a fetched Tran2 row.
StockTxns == { [Date |-> d, Value1 |-> m[1], Value3 |-> m[2]] : d \in Dates, m \in StockMoves }

\* ORDER BY Date: the rows come back in ascending date order.
IsSorted(s) == \A j \in 1..(Len(s) - 1) : s[j].Date <= s[j + 1].Date

SeqsUpTo(S, n) == UNION { [1..k -> S] : k \in 0..n }

StockHistories == { s \in SeqsUpTo(StockTxns, MaxTxns) : IsSorted(s) }

\* The folio1 rows of an account (D1 = balance).
AccountFolios ==
    { <<>>,
      <<[D1 |-> Null, D3 |-> Null]>>,
      <<[D1 |-> Rat(50), D3 |-> Null]>>,
      <<[D1 |-> Norm(1, 250), D3 |-> Null]>> }

\* Tran2 rows of an account: Value1 is the signed amount.
AccountAmounts == { Rat(50), Rat(-50), Norm(1, 8) }
AccountTxns == { [Date |-> d, Value1 |-> a, Value3 |-> Zero] : d \in Dates, a \in AccountAmounts }
AccountHistories == { s \in SeqsUpTo(AccountTxns, MaxTxns) : IsSorted(s) }

\* ------------------------------------------------------------------- state
VARIABLES
    Master1,            \* the Master1 rows matching the item code (0 or 1)
    folio1,             \* the folio1 rows of the item or account (0 or 1)
    Tran2,              \* the Tran2 rows of the item or account, ORDER BY Date
    pc,                 \* position in the running call
    start_date, end_date, hide_zero_balance,        \* arguments of the call
    transactions,       \* rows fetched by the call
    i,                  \* index of the next row of the running loop
    opening_qty, opening_val,
    qty, val, avg_rate,
    period_qty, period_val,
    closing_qty, closing_val,
    results,            \* rows returned by a report call
    all_transactions,   \* ledger: every Tran2 row of the item
    running_qty, running_val,
    ledger_data,        \* rows returned by the ledger call
    opening_balance, closing_balance, period_amount

vars == <<Master1, folio1, Tran2, pc, start_date, end_date, hide_zero_balance,
          transactions, i, opening_qty, opening_val, qty, val, avg_rate,
          period_qty, period_val, closing_qty, closing_val, results,
          all_transactions, running_qty, running_val, ledger_data,
          opening_balance, closing_balance, period_amount>>

\* The locals of get_stock_ledger_live and of get_closing_balance_live.
ledgerVars == <<all_transactions, running_qty, running_val, ledger_data>>
balanceVars == <<opening_balance, closing_balance, period_amount>>
\* The locals that only get_closing_stock_live has.
stockVars == <<hide_zero_balance, period_qty, period_val, closing_qty, closing_val>>

db == <<Master1, folio1, Tran2>>

\* ----------------------------------------- get_closing_stock_live: helpers
\* A slip of the column index: the value read from column 0 (D1).
FolioValFromD1(rows) == IF rows # <<>> /\ Truthy(rows[1].D1) THEN rows[1].D1 ELSE Zero

\* folio_row[0] if folio_row and folio_row[0] else 0   (same for [1]).
FolioQty(rows) == IF rows # <<>> /\ Truthy(rows[1].D1) THEN rows[1].D1 ELSE Zero
FolioVal(rows) == IF rows # <<>> /\ Truthy(rows[1].D3) THEN rows[1].D3 ELSE Zero

\* The Tran2 query of the stock report: "AND Date <= ?" when end_date is given.
SelectUpTo(rows, e) == SelectSeq(rows, LAMBDA t : t.Date <= e)
FetchTransactions(rows, e) == IF e # NoDate THEN SelectUpTo(rows, e) ELSE rows

\* (val / qty) if qty else 0
AvgRate(v, q) == IF q[1] # 0 THEN RDiv(v, q) ELSE Zero

\* The opening loop with a sale valued at the row's own amount instead of the
\* average rate.
OpeningStepSaleAtAmount(s, txn) ==
    IF RGt(txn.Value1, Zero)
    THEN LET q == RAdd(s.qty, txn.Value1)
             v == RAdd(s.val, txn.Value3)
         IN  [qty |-> q, val |-> v, avg_rate |-> IF q[1] # 0 THEN RDiv(v, q) ELSE Zero]
    ELSE IF RLt(txn.Value1, Zero)
    THEN LET sale_qty == RAbs(txn.Value1)
             v == RSub(s.val, RAbs(txn.Value3))
             q == RSub(s.qty, sale_qty)
         IN  [qty |-> q, val |-> v, avg_rate |-> IF q[1] # 0 THEN RDiv(v, q) ELSE Zero]
    ELSE s

\* Body of the loop that advances the balance to start_date, after its
\* date test: a purchase adds quantity and amount, a sale takes its quantity
\* out at the current average rate, a row without quantity changes nothing.
OpeningStep(s, txn) ==
    IF RGt(txn.Value1, Zero)
    THEN LET q == RAdd(s.qty, txn.Value1)
             v == RAdd(s.val, txn.Value3)
         IN  [qty |-> q, val |-> v, avg_rate |-> AvgRate(v, q)]
    ELSE IF RLt(txn.Value1, Zero)
    THEN LET sale_qty == RAbs(txn.Value1)
             v == RSub(s.val, RMul(sale_qty, s.avg_rate))
             q == RSub(s.qty, sale_qty)
         IN  [qty |-> q, val |-> v, avg_rate |-> AvgRate(v, q)]
    ELSE s

\* The in-window loop with a purchase that adds txn[1] (the quantity) to the
\* value where the code adds txn[2].
PeriodStepAmountIndex(s, txn) ==
    IF RGt(txn.Value1, Zero)
    THEN LET q == RAdd(s.qty, txn.Value1)
             v == RAdd(s.val, txn.Value1)
         IN  [qty |-> q, val |-> v, avg_rate |-> IF q[1] # 0 THEN RDiv(v, q) ELSE Zero,
              period_qty |-> RAdd(s.period_qty, txn.Value1),
              period_val |-> RAdd(s.period_val, txn.Value1)]
    ELSE IF RLt(txn.Value1, Zero)
    THEN LET sale_qty == RAbs(txn.Value1)
             v == RSub(s.val, RMul(sale_qty, s.avg_rate))
             q == RSub(s.qty, sale_qty)
             r == IF q[1] # 0 THEN RDiv(v, q) ELSE Zero
         IN  [qty |-> q, val |-> v, avg_rate |-> r,
              period_qty |-> RAdd(s.period_qty, txn.Value1),
              period_val |-> RSub(s.period_val, RMul(sale_qty, r))]
    ELSE s

\* The in-window loop with a sale valued at the row's own amount instead of
\* the average rate.
PeriodStepSaleAtAmount(s, txn) ==
    IF RGt(txn.Value1, Zero)
    THEN LET q == RAdd(s.qty, txn.Value1)
             v == RAdd(s.val, txn.Value3)
         IN  [qty |-> q, val |-> v, avg_rate |-> IF q[1] # 0 THEN RDiv(v, q) ELSE Zero,
              period_qty |-> RAdd(s.period_qty, txn.Value1),
              period_val |-> RAdd(s.period_val, txn.Value3)]
    ELSE IF RLt(txn.Value1, Zero)
    THEN LET sale_qty == RAbs(txn.Value1)
             v == RSub(s.val, RAbs(txn.Value3))
             q == RSub(s.qty, sale_qty)
             r == IF q[1] # 0 THEN RDiv(v, q) ELSE Zero
         IN  [qty |-> q, val |-> v, avg_rate |-> r,
              period_qty |-> RAdd(s.period_qty, txn.Value1),
              period_val |-> RSub(s.period_val, RMul(sale_qty, r))]
    ELSE s

\* Body of the in-window loop, after its date tests.  The sale branch
\* recomputes avg_rate before it subtracts sale_qty * avg_rate from
\* period_val.
PeriodStep(s, txn) ==
    IF RGt(txn.Value1, Zero)
    THEN LET q == RAdd(s.qty, txn.Value1)
             v == RAdd(s.val, txn.Value3)
         IN  [qty |-> q, val |-> v, avg_rate |-> AvgRate(v, q),
              period_qty |-> RAdd(s.period_qty, txn.Value1),
              period_val |-> RAdd(s.period_val, txn.Value3)]
    ELSE IF RLt(txn.Value1, Zero)
    THEN LET sale_qty == RAbs(txn.Value1)
             v == RSub(s.val, RMul(sale_qty, s.avg_rate))
             q == RSub(s.qty, sale_qty)
             r == AvgRate(v, q)
         IN  [qty |-> q, val |-> v, avg_rate |-> r,
              period_qty |-> RAdd(s.period_qty, txn.Value1),
              period_val |-> RSub(s.period_val, RMul(sale_qty, r))]
    ELSE s

\* The in-window loop skips ("continue") a row outside the window.
InWindow(d, s, e) == ~(s # NoDate /\ d < s) /\ ~(e # NoDate /\ d > e)

\* The row appended to results; every number rounded to 2 places.
StockRow(oq, ov, pq, pv, cq, cv) ==
    [opening_quantity |-> Round2(oq), opening_value |-> Round2(ov),
     transaction_quantity |-> Round2(pq), transaction_value |-> Round2(pv),
     closing_quantity |-> Round2(cq), closing_value |-> Round2(cv)]

\* "if not hide_zero_balance or closing_qty != 0"
StockRowKept(h, cq) == ~h \/ cq # Zero

\* ------------------------------------- get_closing_stock_live: whole replay
\* The opening loop from row j on: stops at the first row dated >= start.
RECURSIVE OpeningPass(_, _, _, _)
OpeningPass(txns, j, s, start) ==
    IF j > Len(txns) \/ txns[j].Date >= start THEN s
    ELSE OpeningPass(txns, j + 1, OpeningStep(s, txns[j]), start)

RECURSIVE PeriodPass(_, _, _, _, _)
PeriodPass(txns, j, s, start, end) ==
    IF j > Len(txns) THEN s
    ELSE PeriodPass(txns, j + 1,
                    IF InWindow(txns[j].Date, start, end)
                    THEN PeriodStep(s, txns[j]) ELSE s,
                    start, end)

\* The per-item computation of get_closing_stock_live on the fetched rows
\* txns: opening, period and closing quantity and value, unrounded.
StockReplay(rows, txns, start, end) ==
    LET bq == FolioQty(rows)
        bv == FolioVal(rows)
        o  == IF start # NoDate
              THEN OpeningPass(txns, 1,
                       [qty |-> bq, val |-> bv, avg_rate |-> AvgRate(bv, bq)], start)
              ELSE [qty |-> bq, val |-> bv, avg_rate |-> AvgRate(bv, bq)]
        c  == PeriodPass(txns, 1,
                  [qty |-> o.qty, val |-> o.val, avg_rate |-> AvgRate(o.val, o.qty),
                   period_qty |-> Zero, period_val |-> Zero], start, end)
    IN  [opening_qty |-> o.qty, opening_val |-> o.val,
         period_qty |-> c.period_qty, period_val |-> c.period_val,
         closing_qty |-> c.qty, closing_val |-> c.val]

\* ------------------------------------------- get_closing_stock_live: steps
\* The call up to the first loop: the folio1 read, the Tran2 fetch, and the
\* initialisation of the loop that runs first.
StockCall(s, e, h) ==
    /\ pc = "idle"
    /\ Master1 # <<>>
    /\ Master1[1].MasterType = StockItem
    /\ start_date' = s /\ end_date' = e /\ hide_zero_balance' = h
    /\ transactions' = FetchTransactions(Tran2, e)
    /\ opening_qty' = FolioQty(folio1)
    /\ opening_val' = FolioVal(folio1)
    /\ qty' = FolioQty(folio1)
    /\ val' = FolioVal(folio1)
    /\ avg_rate' = AvgRate(FolioVal(folio1), FolioQty(folio1))
    /\ i' = 1
    /\ pc' = IF s # NoDate THEN "stock_opening" ELSE "stock_period"
    /\ UNCHANGED <<db, period_qty, period_val, closing_qty, closing_val, results,
                   ledgerVars, balanceVars>>

\* One iteration of the opening loop.
StockOpeningStep ==
    /\ pc = "stock_opening"
    /\ i <= Len(transactions)
    /\ transactions[i].Date < start_date
    /\ LET n == OpeningStep([qty |-> qty, val |-> val, avg_rate |-> avg_rate],
                            transactions[i])
       IN  qty' = n.qty /\ val' = n.val /\ avg_rate' = n.avg_rate
    /\ i' = i + 1
    /\ UNCHANGED <<db, pc, start_date, end_date, hide_zero_balance, transactions,
                   opening_qty, opening_val, period_qty, period_val,
                   closing_qty, closing_val, results, ledgerVars, balanceVars>>

\* The opening loop ends (exhausted, or "break"); the balance it reached is
\* the opening balance, and the in-window loop is initialised from it.
StockOpeningDone ==
    /\ pc = "stock_opening"
    /\ IF i > Len(transactions) THEN TRUE
       ELSE transactions[i].Date >= start_date
    /\ opening_qty' = qty
    /\ opening_val' = val
    /\ avg_rate' = AvgRate(val, qty)
    /\ i' = 1
    /\ pc' = "stock_period"
    /\ UNCHANGED <<db, start_date, end_date, hide_zero_balance, transactions,
                   qty, val, period_qty, period_val, closing_qty, closing_val,
                   results, ledgerVars, balanceVars>>

\* One iteration of the in-window loop.
StockPeriodStep ==
    /\ pc = "stock_period"
    /\ i <= Len(transactions)
    /\ LET s == [qty |-> qty, val |-> val, avg_rate |-> avg_rate,
                 period_qty |-> period_qty, period_val |-> period_val]
           n == IF InWindow(transactions[i].Date, start_date, end_date)
                THEN PeriodStep(s, transactions[i]) ELSE s
       IN  /\ qty' = n.qty /\ val' = n.val /\ avg_rate' = n.avg_rate
           /\ period_qty' = n.period_qty /\ period_val' = n.period_val
    /\ i' = i + 1
    /\ UNCHANGED <<db, pc, start_date, end_date, hide_zero_balance, transactions,
                   opening_qty, opening_val, closing_qty, closing_val, results,
                   ledgerVars, balanceVars>>

\* After the loop: the closing balance, and the row unless it is filtered.
StockFinish ==
    /\ pc = "stock_period"
    /\ i > Len(transactions)
    /\ closing_qty' = qty
    /\ closing_val' = val
    /\ results' = IF StockRowKept(hide_zero_balance, qty)
                  THEN <<StockRow(opening_qty, opening_val, period_qty, period_val,
                                  qty, val)>>
                  ELSE <<>>
    /\ pc' = "stock_done"
    /\ UNCHANGED <<db, start_date, end_date, hide_zero_balance, transactions, i,
                   opening_qty, opening_val, qty, val, avg_rate,
                   period_qty, period_val, ledgerVars, balanceVars>>

\* -------------------------------------------------- get_stock_ledger_live
\* Body of the ledger's loop that advances the balance to start_date (the
\* stock report's opening loop, written out again in the ledger).
LedgerOpeningUpdate(s, txn) ==
    IF RGt(txn.Value1, Zero)
    THEN LET q == RAdd(s.qty, txn.Value1)
             v == RAdd(s.val, txn.Value3)
         IN  [qty |-> q, val |-> v, avg_rate |-> AvgRate(v, q)]
    ELSE IF RLt(txn.Value1, Zero)
    THEN LET sale_qty == RAbs(txn.Value1)
             v == RSub(s.val, RMul(sale_qty, s.avg_rate))
             q == RSub(s.qty, sale_qty)
         IN  [qty |-> q, val |-> v, avg_rate |-> AvgRate(v, q)]
    ELSE s

\* The running balance update of the row loop.  Every row that is not a
\* purchase takes the else branch, which leaves avg_rate as it was.
LedgerRowUpdate(s, txn) ==
    IF RGt(txn.Value1, Zero)
    THEN LET q == RAdd(s.running_qty, txn.Value1)
             v == RAdd(s.running_val, txn.Value3)
         IN  [qty_in |-> txn.Value1, qty_out |-> Zero,
              running_qty |-> q, running_val |-> v, avg_rate |-> AvgRate(v, q)]
    ELSE LET sale_qty == RAbs(txn.Value1)
         IN  [qty_in |-> Zero, qty_out |-> RAbs(txn.Value1),
              running_qty |-> RSub(s.running_qty, sale_qty),
              running_val |-> RSub(s.running_val, RMul(sale_qty, s.avg_rate)),
              avg_rate |-> s.avg_rate]

\* "Filter transactions for the period".
FilterPeriod(all, s, e) == SelectSeq(all, LAMBDA t : InWindow(t.Date, s, e))

\* "if opening_qty > 0 or opening_val > 0": the ledger starts with a row for
\* the opening balance.
HasOpeningRow(oq, ov) == RGt(oq, Zero) \/ RGt(ov, Zero)

\* Date of the opening row; today is datetime.now().date().
OpeningRowDate(s, txns, today) ==
    IF s # NoDate THEN s ELSE IF txns # <<>> THEN txns[1].Date ELSE today

OpeningRow(d, oq, ov) ==
    [sno |-> 0, date |-> d, opamount |-> Zero, opqty |-> Zero,
     qtyin |-> oq, qtyout |-> Zero, closingqty |-> oq, closingamt |-> ov]

LedgerRow(idx, txn, op_qty, op_val, n) ==
    [sno |-> idx, date |-> txn.Date,
     opamount |-> Round2(op_val), opqty |-> Round2(op_qty),
     qtyin |-> Round2(n.qty_in), qtyout |-> Round2(n.qty_out),
     closingqty |-> Round2(n.running_qty), closingamt |-> Round2(n.running_val)]

\* From the period filter to the start of the row loop, with opening balance
\* (oq, ov).
LedgerEnterRows(oq, ov, s, e, all) ==
    /\ transactions' = FilterPeriod(all, s, e)
    /\ running_qty' = oq
    /\ running_val' = ov
    /\ avg_rate' = AvgRate(ov, oq)
    /\ \E today \in 1..(MaxDate + 1) :
         ledger_data' =
            IF HasOpeningRow(oq, ov)
            THEN <<OpeningRow(OpeningRowDate(s, FilterPeriod(all, s, e), today), oq, ov)>>
            ELSE <<>>
    /\ i' = 1
    /\ pc' = "ledger_rows"

\* An item code that Master1 does not hold as a stock item: "return []".
LedgerUnknownItem(s, e) ==
    /\ pc = "idle"
    /\ IF Master1 = <<>> THEN TRUE ELSE Master1[1].MasterType # StockItem
    /\ start_date' = s /\ end_date' = e
    /\ ledger_data' = <<>>
    /\ pc' = "ledger_done"
    /\ UNCHANGED <<db, stockVars, balanceVars, transactions, i, opening_qty,
                   opening_val, qty, val, avg_rate, results, all_transactions,
                   running_qty, running_val>>

\* The call with a start_date, up to the opening loop.
LedgerCallFrom(s, e) ==
    /\ pc = "idle"
    /\ Master1 # <<>>
    /\ Master1[1].MasterType = StockItem
    /\ s # NoDate
    /\ start_date' = s /\ end_date' = e
    /\ all_transactions' = Tran2
    /\ opening_qty' = FolioQty(folio1)
    /\ opening_val' = FolioVal(folio1)
    /\ qty' = FolioQty(folio1)
    /\ val' = FolioVal(folio1)
    /\ avg_rate' = AvgRate(FolioVal(folio1), FolioQty(folio1))
    /\ i' = 1
    /\ pc' = "ledger_opening"
    /\ UNCHANGED <<db, stockVars, balanceVars, transactions, results,
                   running_qty, running_val, ledger_data>>

\* The call without a start_date, up to the row loop: the folio1 balance is
\* the opening balance.
LedgerCallAll(e) ==
    /\ pc = "idle"
    /\ Master1 # <<>>
    /\ Master1[1].MasterType = StockItem
    /\ start_date' = NoDate /\ end_date' = e
    /\ all_transactions' = Tran2
    /\ opening_qty' = FolioQty(folio1)
    /\ opening_val' = FolioVal(folio1)
    /\ LedgerEnterRows(FolioQty(folio1), FolioVal(folio1), NoDate, e, Tran2)
    /\ UNCHANGED <<db, stockVars, balanceVars, qty, val, results>>

\* One iteration of the ledger's opening loop.
LedgerOpeningStep ==
    /\ pc = "ledger_opening"
    /\ i <= Len(all_transactions)
    /\ all_transactions[i].Date < start_date
    /\ LET n == LedgerOpeningUpdate([qty |-> qty, val |-> val, avg_rate |-> avg_rate],
                                    all_transactions[i])
       IN  qty' = n.qty /\ val' = n.val /\ avg_rate' = n.avg_rate
    /\ i' = i + 1
    /\ UNCHANGED <<db, stockVars, balanceVars, ledgerVars, pc, start_date, end_date,
                   transactions, opening_qty, opening_val, results>>

\* The opening loop ends; the period filter, the opening row.
LedgerOpeningDone ==
    /\ pc = "ledger_opening"
    /\ IF i > Len(all_transactions) THEN TRUE
       ELSE all_transactions[i].Date >= start_date
    /\ opening_qty' = qty
    /\ opening_val' = val
    /\ LedgerEnterRows(qty, val, start_date, end_date, all_transactions)
    /\ UNCHANGED <<db, stockVars, balanceVars, start_date, end_date, qty, val,
                   results, all_transactions>>

\* One iteration of the row loop: the running balance and the row.
LedgerRowStep ==
    /\ pc = "ledger_rows"
    /\ i <= Len(transactions)
    /\ LET n == LedgerRowUpdate([running_qty |-> running_qty,
                                 running_val |-> running_val,
                                 avg_rate |-> avg_rate], transactions[i])
       IN  /\ running_qty' = n.running_qty
           /\ running_val' = n.running_val
           /\ avg_rate' = n.avg_rate
           /\ ledger_data' = Append(ledger_data,
                 LedgerRow(i, transactions[i], running_qty, running_val, n))
    /\ i' = i + 1
    /\ UNCHANGED <<db, stockVars, balanceVars, pc, start_date, end_date,
                   transactions, opening_qty, opening_val, qty, val, results,
                   all_transactions>>

\* "return ledger_data"
LedgerReturn ==
    /\ pc = "ledger_rows"
    /\ i > Len(transactions)
    /\ pc' = "ledger_done"
    /\ UNCHANGED <<db, stockVars, balanceVars, ledgerVars, start_date, end_date,
                   transactions, i, opening_qty, opening_val, qty, val, avg_rate,
                   results>>

\* ----------------------------------------------- get_closing_balance_live
\* SELECT SUM(Value1): NULL when no row is selected.
RECURSIVE SumFrom(_, _)
SumFrom(rows, j) ==
    IF j > Len(rows) THEN Zero ELSE RAdd(rows[j].Value1, SumFrom(rows, j + 1))

SqlSum(rows) == IF rows = <<>> THEN Null ELSE SumFrom(rows, 1)

\* cursor.fetchone()[0] or 0
OrZero(x) == IF Truthy(x) THEN x ELSE Zero

\* The opening query with "Date <= ?" where the code has "Date < ?".
OpeningBalanceInclusive(rows, txns, s) ==
    IF s # NoDate
    THEN Round2(RAdd(FolioQty(rows),
                     OrZero(SqlSum(SelectSeq(txns, LAMBDA t : t.Date <= s)))))
    ELSE FolioQty(rows)

\* Opening balance: the folio1 balance, plus the amounts dated before
\* start_date and rounded when a start_date is given.
OpeningBalance(rows, txns, s) ==
    IF s # NoDate
    THEN Round2(RAdd(FolioQty(rows),
                     OrZero(SqlSum(SelectSeq(txns, LAMBDA t : t.Date < s)))))
    ELSE FolioQty(rows)

\* Closing balance: the folio1 balance plus the amounts up to end_date (all
\* of them without an end_date), rounded.
ClosingBalance(rows, txns, e) ==
    IF e # NoDate
    THEN Round2(RAdd(FolioQty(rows),
                     OrZero(SqlSum(SelectSeq(txns, LAMBDA t : t.Date <= e)))))
    ELSE Round2(RAdd(FolioQty(rows), OrZero(SqlSum(txns))))

\* Period amount: the amounts with start_date <= Date <= end_date, each
\* bound applied when given.
PeriodAmount(txns, s, e) ==
    OrZero(SqlSum(SelectSeq(txns,
        LAMBDA t : (s # NoDate => t.Date >= s) /\ (e # NoDate => t.Date <= e))))

\* The total without the absolute values.
TotalValueSigned(o, p, c) == RAdd(RAdd(o, p), c)

\* total_value = abs(opening_balance) + abs(period_amount) + abs(closing_balance)
TotalValue(o, p, c) == RAdd(RAdd(RAbs(o), RAbs(p)), RAbs(c))

BalanceRow(o, p, c) ==
    [opening_balance |-> o, transaction_amount |-> p, closing_balance |-> c]

\* The per-account body of get_closing_balance_live.
BalanceCall(s, e) ==
    /\ pc = "idle"
    /\ Master1 # <<>>
    /\ Master1[1].MasterType = Account
    /\ start_date' = s /\ end_date' = e
    /\ opening_balance' = OpeningBalance(folio1, Tran2, s)
    /\ closing_balance' = ClosingBalance(folio1, Tran2, e)
    /\ period_amount' = PeriodAmount(Tran2, s, e)
    /\ results' =
          IF RGt(TotalValue(OpeningBalance(folio1, Tran2, s),
                            PeriodAmount(Tran2, s, e),
                            ClosingBalance(folio1, Tran2, e)), Zero)
          THEN <<BalanceRow(OpeningBalance(folio1, Tran2, s),
                            PeriodAmount(Tran2, s, e),
                            ClosingBalance(folio1, Tran2, e))>>
          ELSE <<>>
    /\ pc' = "balance_done"
    /\ UNCHANGED <<db, stockVars, ledgerVars, transactions, i, opening_qty,
                   opening_val, qty, val, avg_rate>>

\* ----------------------------------------------------- initial conditions
NoCall ==
    /\ pc = "idle"
    /\ start_date = NoDate /\ end_date = NoDate /\ hide_zero_balance = FALSE
    /\ transactions = <<>> /\ i = 0
    /\ opening_qty = Zero /\ opening_val = Zero
    /\ qty = Zero /\ val = Zero /\ avg_rate = Zero
    /\ period_qty = Zero /\ period_val = Zero
    /\ closing_qty = Zero /\ closing_val = Zero
    /\ results = <<>>
    /\ all_transactions = <<>>
    /\ running_qty = Zero /\ running_val = Zero
    /\ ledger_data = <<>>
    /\ opening_balance = Zero /\ closing_balance = Zero /\ period_amount = Zero

\* A stock item (Master1.MasterType = 6) with its folio1 row and history.
InitStock ==
    /\ Master1 = <<[MasterType |-> StockItem]>>
    /\ folio1 \in StockFolios
    /\ Tran2 \in StockHistories
    /\ NoCall

\* The ledger may also be asked for a code that is no stock item.
InitLedger ==
    \/ InitStock
    \/ /\ Master1 = <<>>
       /\ folio1 = <<>>
       /\ Tran2 = <<>>
       /\ NoCall

\* An account (Master1.MasterType = 2) with its folio1 row and amounts.
InitBalance ==
    /\ Master1 = <<[MasterType |-> Account]>>
    /\ folio1 \in AccountFolios
    /\ Tran2 \in AccountHistories
    /\ NoCall

NextStock ==
    \/ \E s \in DateArgs, e \in DateArgs, h \in BOOLEAN : StockCall(s, e, h)
    \/ StockOpeningStep
    \/ StockOpeningDone
    \/ StockPeriodStep
    \/ StockFinish

NextLedger ==
    \/ \E s \in DateArgs, e \in DateArgs : LedgerUnknownItem(s, e)
    \/ \E s \in DateArgs, e \in DateArgs : LedgerCallFrom(s, e)
    \/ \E e \in DateArgs : LedgerCallAll(e)
    \/ LedgerOpeningStep
    \/ LedgerOpeningDone
    \/ LedgerRowStep
    \/ LedgerReturn

NextBalance == \E s \in DateArgs, e \in DateArgs : BalanceCall(s, e)

\* One call of get_closing_stock_live on a stock item.
SpecStock == InitStock /\ [][NextStock]_vars

\* One call of get_stock_ledger_live.
SpecLedger == InitLedger /\ [][NextLedger]_vars

\* One call of get_closing_stock_live or of get_stock_ledger_live.
SpecItem == InitLedger /\ [][NextStock \/ NextLedger]_vars

\* One call of get_closing_balance_live on an account.
SpecBalance == InitBalance /\ [][NextBalance]_vars

\* One call of any of the three on the rows of one item or account.
Init == InitLedger \/ InitBalance
Next == NextStock \/ NextLedger \/ NextBalance
Spec == Init /\ [][Next]_vars

\* ================================================================= claims
\* The step-by-step calls and the whole-replay operator agree on the rows
\* the call fetched.
StockStepsAgreeWithReplay ==
    pc = "stock_done" =>
        LET r == StockReplay(folio1, transactions, start_date, end_date)
        IN  /\ opening_qty = r.opening_qty /\ opening_val = r.opening_val
            /\ period_qty = r.period_qty /\ period_val = r.period_val
            /\ closing_qty = r.closing_qty /\ closing_val = r.closing_val

\* The sale now applied by a loop of the stock report: the row at i is a
\* sale that the loop does not skip.
StockSaleStep ==
    /\ pc \in {"stock_opening", "stock_period"}
    /\ i' = i + 1
    /\ RLt(transactions[i].Value1, Zero)
    /\ (pc = "stock_period" => InWindow(transactions[i].Date, start_date, end_date))

\* The row before i of the in-window loop was a sale inside the window.
SaleJustApplied ==
    /\ pc = "stock_period"
    /\ i > 1
    /\ RLt(transactions[i - 1].Value1, Zero)
    /\ InWindow(transactions[i - 1].Date, start_date, end_date)

\* C1: a stock report call with a start date and no end date ends with the
\* closing quantity and value of the call with no window bounds on the same
\* rows.
C1_WindowDecomposition ==
    (pc = "stock_done" /\ start_date # NoDate /\ end_date = NoDate) =>
        LET full == StockReplay(folio1, Tran2, NoDate, NoDate)
        IN  closing_qty = full.closing_qty /\ closing_val = full.closing_val

\* A finished call whose start date splits a purchase from a later sale.
C1_Witness ==
    /\ pc = "stock_done" /\ start_date # NoDate /\ end_date = NoDate
    /\ Len(Tran2) = 2
    /\ Tran2[1].Date < start_date /\ Tran2[2].Date >= start_date
    /\ RGt(Tran2[1].Value1, Zero) /\ RLt(Tran2[2].Value1, Zero)
    /\ closing_qty # FolioQty(folio1)

\* C3 as stated: a sale leaves avg_rate as it was unless the quantity after
\* it is 0.
C3_RateStableUnlessEmptied ==
    [][StockSaleStep => (avg_rate' = avg_rate \/ qty' = Zero)]_vars

\* C3 amended: a sale leaves avg_rate as it was unless the quantity before
\* it or the quantity after it is 0.
C3_RateStableUnlessZeroQty ==
    [][StockSaleStep => (avg_rate' = avg_rate \/ qty' = Zero \/ qty = Zero)]_vars

\* A sale inside the window from a nonzero quantity to a nonzero quantity at
\* a nonzero rate.
C3_Witness ==
    /\ SaleJustApplied
    /\ qty # Zero /\ avg_rate # Zero
    /\ RSub(qty, transactions[i - 1].Value1) # Zero

RECURSIVE SumValue1(_, _)
SumValue1(rows, j) ==
    IF j > Len(rows) THEN Zero ELSE RAdd(rows[j].Value1, SumValue1(rows, j + 1))

RECURSIVE SumValue3(_, _)
SumValue3(rows, j) ==
    IF j > Len(rows) THEN Zero ELSE RAdd(rows[j].Value3, SumValue3(rows, j + 1))

\* The stored balance of the item; a missing row or a NULL counts as 0.
BaseQty == IF folio1 = <<>> THEN Zero
           ELSE IF folio1[1].D1 = Null THEN Zero ELSE folio1[1].D1
BaseVal == IF folio1 = <<>> THEN Zero
           ELSE IF folio1[1].D3 = Null THEN Zero ELSE folio1[1].D3

OnlyPurchases == \A j \in 1..Len(Tran2) : RGt(Tran2[j].Value1, Zero)

\* C4: with purchases only and no window bounds the closing quantity is the
\* base quantity plus the sum of the quantities, and the closing value the
\* base value plus the sum of the amounts.
C4_PureInflowConservation ==
    (pc = "stock_done" /\ start_date = NoDate /\ end_date = NoDate /\ OnlyPurchases) =>
        /\ closing_qty = RAdd(BaseQty, SumValue1(Tran2, 1))
        /\ closing_val = RAdd(BaseVal, SumValue3(Tran2, 1))

\* A finished unbounded call on a nonzero base and two purchases at
\* different rates.
C4_Witness ==
    /\ pc = "stock_done" /\ start_date = NoDate /\ end_date = NoDate /\ OnlyPurchases
    /\ Len(Tran2) = 2
    /\ RMul(Tran2[1].Value3, Tran2[2].Value1) # RMul(Tran2[2].Value3, Tran2[1].Value1)
    /\ BaseQty # Zero

\* C5: with hide_zero_balance no returned row shows a closing quantity of
\* 0.00.
C5_NoZeroClosingRow ==
    (pc = "stock_done" /\ hide_zero_balance) =>
        \A j \in 1..Len(results) : results[j].closing_quantity # Zero

\* C7: with an end date, opening, period and closing of the call are those
\* of the replay over all Tran2 rows, not only those the query kept.
C7_IndependentOfSourceFilter ==
    (pc = "stock_done" /\ end_date # NoDate) =>
        LET r == StockReplay(folio1, Tran2, start_date, end_date)
        IN  /\ opening_qty = r.opening_qty /\ opening_val = r.opening_val
            /\ period_qty = r.period_qty /\ period_val = r.period_val
            /\ closing_qty = r.closing_qty /\ closing_val = r.closing_val

\* C8: with no Tran2 row, whatever the window, opening and closing are the
\* stored balance (0 when it is missing) and the period totals are 0.
C8_NoTransactionIdempotence ==
    (pc = "stock_done" /\ Tran2 = <<>>) =>
        /\ opening_qty = BaseQty /\ opening_val = BaseVal
        /\ closing_qty = BaseQty /\ closing_val = BaseVal
        /\ period_qty = Zero /\ period_val = Zero

\* A finished call with both window bounds on an item without transactions
\* and with a stored quantity and value that differ.
C8_Witness ==
    /\ pc = "stock_done" /\ Tran2 = <<>>
    /\ start_date # NoDate /\ end_date # NoDate
    /\ closing_qty # Zero /\ closing_val # closing_qty

\* C8, second case: the same for an item with no folio1 row.
C8_WitnessMissingBase ==
    /\ pc = "stock_done" /\ Tran2 = <<>> /\ folio1 = <<>>
    /\ closing_qty = Zero /\ closing_val = Zero

\* C9: a sale inside the window lowers period_val by |quantity| times the
\* average rate before the sale, the amount by which it lowers val.
C9_PeriodValueOfSale ==
    [][(StockSaleStep /\ pc = "stock_period") =>
          LET consumed_value == RMul(RAbs(transactions[i].Value1), avg_rate)
          IN  /\ val' = RSub(val, consumed_value)
              /\ period_val' = RSub(period_val, consumed_value)]_vars

\* avg_rate r is the guarded quotient of value v and quantity q.
IsGuardedRate(r, q, v) ==
    /\ r # DivByZero
    /\ IF q = Zero THEN r = Zero ELSE RMul(r, q) = v

\* C10: in every replay loop the tracked avg_rate is value / quantity, or 0
\* when the quantity is 0, and never the result of a division by zero.
C10_GuardedAverageRate ==
    /\ pc \in {"stock_opening", "stock_period", "ledger_opening"} =>
          IsGuardedRate(avg_rate, qty, val)
    /\ pc = "ledger_rows" => IsGuardedRate(avg_rate, running_qty, running_val)

\* The Tran2 rows of the item dated inside the window of the call.
TransactionsInWindow ==
    { j \in 1..Len(Tran2) : InWindow(Tran2[j].Date, start_date, end_date) }

\* C2: the ledger of a stock item has one row per transaction dated in the
\* window, and one more when the opening balance (quantity, value) of the
\* window is not (0, 0).
C2_LedgerRowCount ==
    (pc = "ledger_done" /\ Master1 # <<>>) =>
        Len(ledger_data) =
            Cardinality(TransactionsInWindow)
            + (IF opening_qty # Zero \/ opening_val # Zero THEN 1 ELSE 0)

\* C6: the balance report keeps the account unless opening balance, period
\* amount and closing balance are all 0; the sum of their absolute values
\* decides, so opening 50, period -50, closing 0 is kept.
C6_BalanceRetention ==
    pc = "balance_done" =>
        /\ results # <<>> <=>
              ~(opening_balance = Zero /\ period_amount = Zero /\ closing_balance = Zero)
        /\ results # <<>> =>
              results = <<BalanceRow(opening_balance, period_amount, closing_balance)>>

\* The account with opening 50, period -50 and closing 0, reported.
C6_Witness ==
    /\ pc = "balance_done"
    /\ opening_balance = Rat(50) /\ period_amount = Rat(-50) /\ closing_balance = Zero
    /\ results # <<>>

\* An account whose three amounts are 0 although it has transactions,
\* suppressed.
C6_WitnessSuppressed ==
    /\ pc = "balance_done"
    /\ Tran2 # <<>>
    /\ results = <<>>

\* The row get_closing_stock_live reports for the item and the window of the
\* running call (hide_zero_balance off).
ReportRowForWindow ==
    LET r == StockReplay(folio1, FetchTransactions(Tran2, end_date),
                         start_date, end_date)
    IN  StockRow(r.opening_qty, r.opening_val, r.period_qty, r.period_val,
                 r.closing_qty, r.closing_val)

\* Each ledger row opens with the balance the row before it closed with (to
\* 2 places).
LedgerRowsChain ==
    \A j \in 2..Len(ledger_data) :
        /\ Round2(ledger_data[j].opqty) = Round2(ledger_data[j - 1].closingqty)
        /\ Round2(ledger_data[j].opamount) = Round2(ledger_data[j - 1].closingamt)

\* C11: the last ledger row closes, to 2 places, with the closing quantity
\* and value the stock report gives for the same item and window, and every
\* ledger row opens with the closing balance of the row before it.
C11_ReadPathsAgree ==
    (pc = "ledger_done" /\ ledger_data # <<>>) =>
        /\ Round2(ledger_data[Len(ledger_data)].closingqty)
              = ReportRowForWindow.closing_quantity
        /\ Round2(ledger_data[Len(ledger_data)].closingamt)
              = ReportRowForWindow.closing_value
        /\ LedgerRowsChain

\* x has at most 2 decimal places.
Exact2(x) == Round2(x) = x

AmountsExact2 == \A j \in 1..Len(Tran2) : Exact2(Tran2[j].Value1)

\* C12 as stated: with transaction amounts exact to 2 places, for every
\* start_date and end_date, present or absent and in any order, the closing
\* balance is the opening balance plus the period amount.
C12_BalanceReconciles ==
    (pc = "balance_done" /\ AmountsExact2) =>
        closing_balance = RAdd(opening_balance, period_amount)

\* C12 amended: the same with a stored balance exact to 2 places as well and
\* a window whose start_date, when both bounds are given, is not after its
\* end_date.
C12_BalanceReconcilesOrdered ==
    (/\ pc = "balance_done"
     /\ AmountsExact2
     /\ Exact2(BaseQty)
     /\ (start_date = NoDate \/ end_date = NoDate \/ start_date <= end_date)) =>
        closing_balance = RAdd(opening_balance, period_amount)

\* A finished call with both bounds, an amount before the window and an
\* amount on its first day.
C12_Witness ==
    /\ pc = "balance_done" /\ AmountsExact2 /\ Exact2(BaseQty)
    /\ start_date # NoDate /\ end_date # NoDate /\ start_date <= end_date
    /\ Len(Tran2) = 2
    /\ Tran2[1].Date < start_date /\ Tran2[2].Date = start_date
    /\ BaseQty # Zero

====
